---- MODULE Spec2Model ----
(***************************************************************************)
(* Spot FX prices (sysdata/fx/spotfx.py, class fxPricesData).              *)
(*                                                                         *)
(* A store of price series keyed by currency-pair code, the resolver       *)
(* get_fx_prices (identity, direct quote, inversion, cross rate) and the   *)
(* facade operations add_fx_prices, update_fx_prices, delete_fx_prices.    *)
(*                                                                         *)
(* A code is the sequence of its six letters.  A series is a sequence of   *)
(* rows [t, r] with strictly increasing timestamps t; a rate r is a        *)
(* fraction <<num, den>> in lowest terms, and NaN is pandas' missing       *)
(* value.  Spec is a sequence of facade calls, SpecCall one call against   *)
(* any store, SpecResolve one lookup against any store, and SpecConc two   *)
(* callers updating the same code step by step.                            *)
(***************************************************************************)
EXTENDS Integers, Sequences, FiniteSets, TLC

VARIABLES store, last, nops, pc, loc

vars == <<store, last, nops, pc, loc>>

\* ------------------------------------------------------------------ bounds

\* Timestamps are 1..MaxTime.
MaxTime == 2

\* A submitted batch (and an initially stored series) has at most MaxLen rows.
MaxLen == 2

\* Facade calls per behaviour of Spec.
MaxOps == 2

Times == 1..MaxTime

\* ------------------------------------------------------------------- rates

RECURSIVE GCD(_, _)
GCD(a, b) == IF b = 0 THEN a ELSE GCD(b, a % b)

Frac(n, d) == <<n \div GCD(n, d), d \div GCD(n, d)>>

NaN == <<0, 0>>

One == <<1, 1>>

\* Rates of submitted observations.
RateVals == {<<2, 1>>, <<3, 1>>}

\* 1.0 / r
Recip(r) == IF r = NaN THEN NaN ELSE <<r[2], r[1]>>

\* a / b, NaN if either side is missing
Div(a, b) == IF a = NaN \/ b = NaN THEN NaN ELSE Frac(a[1] * b[2], a[2] * b[1])

\* ------------------------------------------------------------------ series

Row(t, r) == [t |-> t, r |-> r]

TimesOf(s) == {s[i].t : i \in 1..Len(s)}

\* The series with index S (ascending) and the rate f[t] at t.
MkSeries(S, f) ==
    [i \in 1..Cardinality(S) |->
        LET t == CHOOSE u \in S : Cardinality({v \in S : v < u}) = i - 1
        IN  Row(t, f[t])]

\* Every price series a caller can submit: strictly increasing timestamps.
Batches ==
    UNION {{MkSeries(S, f) : f \in [S -> RateVals]} :
              S \in {T \in SUBSET Times : Cardinality(T) <= MaxLen}}

IsPrefix(s, u) == Len(s) <= Len(u) /\ \A i \in 1..Len(s) : u[i] = s[i]

\* ------------------------------------------------------------------- codes

\* A currency is its three letters; a code is a string of letters.
USD == <<"U", "S", "D">>

EUR == <<"E", "U", "R">>

GBP == <<"G", "B", "P">>

DEFAULT_CURRENCY == USD

Currencies == {USD, EUR, GBP}

PairCodes == {a \o b : a \in Currencies, b \in Currencies}

\* A code that get_fx_tuple_from_code cannot split into two currencies.
MalformedCode == EUR

\* The codes a series is asked for; writes and deletes name pair codes.
Codes == PairCodes \cup {MalformedCode}

DirectCodes == {a \o DEFAULT_CURRENCY : a \in Currencies \ {DEFAULT_CURRENCY}}

\* get_fx_tuple_from_code raises on a code that is not six letters long.
CanDecode(code) == Len(code) = 6

get_fx_tuple_from_code(code) == <<SubSeq(code, 1, 3), SubSeq(code, 4, 6)>>

\* ------------------------------------------------------------ return values

\* What a call hands back: a row count, None, the spike sentinel, a series
\* object, or an exception that leaves the call.
IntResult(n) == [kind |-> "int", n |-> n]

NoneResult == [kind |-> "None"]

SPIKE_IN_DATA == [kind |-> "SPIKE_IN_DATA"]

SeriesResult(obj) == [kind |-> "series", cls |-> obj.cls, data |-> obj.data]

\* 'Series' object has no attribute 'add_rows_to_existing_data'
AttributeError == [kind |-> "AttributeError"]

\* An object of class cls (fxPrices, or plain pandas Series) holding data.
\* Only an fxPrices object has the method add_rows_to_existing_data.
Obj(cls, data) == [cls |-> cls, data |-> data]

\* DEFAULT_DATES: the whole calendar; DEFAULT_RATE_SERIES: 1.0 on each date,
\* built by pd.Series(...) and so not an fxPrices object.
DEFAULT_DATES == Times

DEFAULT_RATE_SERIES == Obj("Series", MkSeries(DEFAULT_DATES, [t \in DEFAULT_DATES |-> One]))

create_empty == Obj("fxPrices", <<>>)

\* ------------------------------------------------------------------- store

get_list_of_fxcodes(st) == DOMAIN st

is_code_in_data(st, code) == code \in get_list_of_fxcodes(st)

_get_fx_prices_without_checking(st, code) == Obj("fxPrices", st[code])

_add_fx_prices_without_checking_for_existing_entry(st, code, data) ==
    [c \in DOMAIN st \cup {code} |-> IF c = code THEN data ELSE st[c]]

_delete_fx_prices_without_any_warning_be_careful(st, code) ==
    [c \in DOMAIN st \ {code} |-> st[c]]

\* ---------------------------------------------------------------- resolver

_get_fx_prices(st, code) ==
    IF ~is_code_in_data(st, code)
    THEN create_empty
    ELSE _get_fx_prices_without_checking(st, code)

_get_fx_prices_vs_default(st, currency1) ==
    _get_fx_prices(st, currency1 \o DEFAULT_CURRENCY)

_get_standard_fx_prices(st, fx_code) ==
    _get_fx_prices_vs_default(st, get_fx_tuple_from_code(fx_code)[1])

\* The inversion that hands back the direct quote as it is stored.
_get_fx_prices_for_inversion_not_inverted(st, fx_code) ==
    _get_fx_prices_vs_default(st, get_fx_tuple_from_code(fx_code)[2])

_get_fx_prices_for_inversion(st, fx_code) ==
    LET raw_fx_data == _get_fx_prices_vs_default(st, get_fx_tuple_from_code(fx_code)[2])
    IN  IF Len(raw_fx_data.data) = 0
        THEN raw_fx_data
        ELSE Obj("fxPrices",
                 [i \in 1..Len(raw_fx_data.data) |->
                     Row(raw_fx_data.data[i].t, Recip(raw_fx_data.data[i].r))])

\* s.reindex(index).ffill() at t: the latest rate of s at or before t, NaN
\* when s has no row at or before t.
FFillAt(s, t) ==
    LET before == {i \in 1..Len(s) : s[i].t <= t}
    IN  IF before = {} THEN NaN
        ELSE s[CHOOSE i \in before : \A j \in before : j <= i].r

\* The cross that divides the aligned legs without forward-filling them.
_get_fx_cross_without_ffill(st, fx_code) ==
    LET s1 == _get_fx_prices_vs_default(st, get_fx_tuple_from_code(fx_code)[1]).data
        s2 == _get_fx_prices_vs_default(st, get_fx_tuple_from_code(fx_code)[2]).data
        index == TimesOf(s1) \cup TimesOf(s2)
        At(s, t) == IF t \in TimesOf(s) THEN FFillAt(s, t) ELSE NaN
    IN  IF Len(s1) = 0 \/ Len(s2) = 0
        THEN create_empty
        ELSE Obj("fxPrices", MkSeries(index, [t \in index |-> Div(At(s1, t), At(s2, t))]))

_get_fx_cross(st, fx_code) ==
    LET currency1_vs_default == _get_fx_prices_vs_default(st, get_fx_tuple_from_code(fx_code)[1])
        currency2_vs_default == _get_fx_prices_vs_default(st, get_fx_tuple_from_code(fx_code)[2])
        s1 == currency1_vs_default.data
        s2 == currency2_vs_default.data
        index == TimesOf(s1) \cup TimesOf(s2)
    IN  IF Len(s1) = 0 \/ Len(s2) = 0
        THEN create_empty
        ELSE Obj("fxPrices",
                 MkSeries(index, [t \in index |-> Div(FFillAt(s1, t), FFillAt(s2, t))]))

get_fx_prices(st, fx_code) ==
    IF ~CanDecode(fx_code) THEN DEFAULT_RATE_SERIES
    ELSE LET currency1 == get_fx_tuple_from_code(fx_code)[1]
             currency2 == get_fx_tuple_from_code(fx_code)[2]
         IN  IF currency1 = currency2 THEN DEFAULT_RATE_SERIES
             ELSE IF currency2 = DEFAULT_CURRENCY THEN _get_standard_fx_prices(st, fx_code)
             ELSE IF currency1 = DEFAULT_CURRENCY THEN _get_fx_prices_for_inversion(st, fx_code)
             ELSE _get_fx_cross(st, fx_code)

\* ------------------------------------------------------------------ merger

\* fxPrices.add_rows_to_existing_data: the spike sentinel when the check is
\* on and the detector flags the batch, else old followed by the rows of new
\* that are strictly later than old's last row.
add_rows_to_existing_data(old, new, check_for_spike, spike) ==
    IF check_for_spike /\ spike
    THEN [cls |-> "SPIKE_IN_DATA", data |-> <<>>]
    ELSE Obj("fxPrices",
             old \o SelectSeq(new, LAMBDA row : Len(old) = 0 \/ row.t > old[Len(old)].t))

\* ------------------------------------------------------------------ facade

\* The outcome of a call: what it returns, the store it leaves, and whether
\* it wrote to or erased from the store.
Outcome(ret, st, wrote) == [ret |-> ret, store |-> st, wrote |-> wrote]

\* The delete that does not look at are_you_sure.
delete_fx_prices_without_asking(st, code, are_you_sure) ==
    IF is_code_in_data(st, code)
    THEN Outcome(NoneResult, _delete_fx_prices_without_any_warning_be_careful(st, code), TRUE)
    ELSE Outcome(NoneResult, st, FALSE)

delete_fx_prices(st, code, are_you_sure) ==
    IF are_you_sure
    THEN IF is_code_in_data(st, code)
         THEN Outcome(NoneResult, _delete_fx_prices_without_any_warning_be_careful(st, code), TRUE)
         ELSE Outcome(NoneResult, st, FALSE)
    ELSE Outcome(NoneResult, st, FALSE)

\* The add that does not look for an existing entry.
add_fx_prices_without_checking(st, code, fx_price_data, ignore_duplication) ==
    Outcome(NoneResult,
            _add_fx_prices_without_checking_for_existing_entry(st, code, fx_price_data),
            TRUE)

add_fx_prices(st, code, fx_price_data, ignore_duplication) ==
    IF is_code_in_data(st, code) /\ ~ignore_duplication
    THEN Outcome(NoneResult, st, FALSE)
    ELSE Outcome(NoneResult,
                 _add_fx_prices_without_checking_for_existing_entry(st, code, fx_price_data),
                 TRUE)

\* The update that asks for the merge with the spike check switched off.
update_fx_prices_without_spike_check(st, code, new_fx_prices, check_for_spike, spike) ==
    LET old_fx_prices == get_fx_prices(st, code)
    IN  IF old_fx_prices.cls # "fxPrices"
        THEN Outcome(AttributeError, st, FALSE)
        ELSE
        LET merged_fx_prices ==
                add_rows_to_existing_data(old_fx_prices.data, new_fx_prices, FALSE, spike)
            rows_added == Len(merged_fx_prices.data) - Len(old_fx_prices.data)
        IN  IF rows_added = 0
            THEN Outcome(IntResult(0), st, FALSE)
            ELSE Outcome(IntResult(rows_added),
                         add_fx_prices(st, code, merged_fx_prices.data, TRUE).store,
                         TRUE)

update_fx_prices(st, code, new_fx_prices, check_for_spike, spike) ==
    LET old_fx_prices == get_fx_prices(st, code)
    IN  IF old_fx_prices.cls # "fxPrices"
        THEN Outcome(AttributeError, st, FALSE)
        ELSE
        LET merged_fx_prices ==
                add_rows_to_existing_data(old_fx_prices.data, new_fx_prices, check_for_spike, spike)
            rows_added == Len(merged_fx_prices.data) - Len(old_fx_prices.data)
        IN  IF merged_fx_prices.cls = "SPIKE_IN_DATA"
            THEN Outcome(SPIKE_IN_DATA, st, FALSE)
            ELSE IF rows_added = 0
            THEN Outcome(IntResult(0), st, FALSE)
            ELSE Outcome(IntResult(rows_added),
                         add_fx_prices(st, code, merged_fx_prices.data, TRUE).store,
                         TRUE)

\* ------------------------------------------------------- sequential callers

\* The call that was made last: its arguments, the store it found (pre), the
\* detector's verdict on its batch, what it returned and whether it wrote.
Call(op, code, data, flag, spike, pre, out) ==
    [op |-> op, code |-> code, data |-> data, flag |-> flag, spike |-> spike,
     pre |-> pre, ret |-> out.ret, wrote |-> out.wrote]

NoCall == Call("none", <<>>, <<>>, FALSE, FALSE, <<>>, Outcome(NoneResult, <<>>, FALSE))

EmptyStore == <<>>

\* The stores with a series of S under some of the direct codes, and
\* possibly a stray series under the inversion code USDEUR, put there by
\* add_fx_prices.
StraySeries == <<Row(1, <<3, 1>>)>>

StoresOver(S) ==
    LET direct == UNION {[D -> S] : D \in SUBSET DirectCodes}
    IN  direct \cup
        {_add_fx_prices_without_checking_for_existing_entry(st, USD \o EUR, StraySeries) :
            st \in direct}

\* The stores the resolver is asked about: any submittable series per leg.
ResolveStores == StoresOver(Batches)

\* The stores a single call finds: per leg a series quoted at one rate.
InitStores ==
    StoresOver({s \in Batches : \A i \in 1..Len(s) : s[i].r = <<2, 1>>})

\* Two stores of direct quotes a sequence of calls starts from.
SeedStores ==
    {EmptyStore,
     [c \in DirectCodes |->
         IF c = EUR \o USD THEN <<Row(1, <<2, 1>>)>> ELSE <<Row(2, <<3, 1>>)>>]}

NoCallers == <<>>

Get(code) ==
    /\ last' = Call("get", code, <<>>, FALSE, FALSE, store,
                    Outcome(SeriesResult(get_fx_prices(store, code)), store, FALSE))
    /\ UNCHANGED store

Add(code, data, ignore_duplication) ==
    LET out == add_fx_prices(store, code, data, ignore_duplication)
    IN  /\ store' = out.store
        /\ last' = Call("add", code, data, ignore_duplication, FALSE, store, out)

Update(code, data, check_for_spike, spike) ==
    LET out == update_fx_prices(store, code, data, check_for_spike, spike)
    IN  /\ store' = out.store
        /\ last' = Call("update", code, data, check_for_spike, spike, store, out)

Delete(code, are_you_sure) ==
    LET out == delete_fx_prices(store, code, are_you_sure)
    IN  /\ store' = out.store
        /\ last' = Call("delete", code, <<>>, are_you_sure, FALSE, store, out)

\* Spec: up to MaxOps calls in sequence, from a store of direct quotes.
Init ==
    /\ store \in SeedStores
    /\ last = NoCall
    /\ nops = 0
    /\ pc = NoCallers
    /\ loc = NoCallers

\* The next call of the sequence.
InSequence(call) ==
    /\ nops < MaxOps
    /\ nops' = nops + 1
    /\ call
    /\ UNCHANGED <<pc, loc>>

Next ==
    \/ \E code \in Codes : InSequence(Get(code))
    \/ \E code \in PairCodes, data \in Batches, ignore_duplication \in BOOLEAN :
          InSequence(Add(code, data, ignore_duplication))
    \/ \E code \in PairCodes, data \in Batches, check_for_spike \in BOOLEAN, spike \in BOOLEAN :
          InSequence(Update(code, data, check_for_spike, spike))
    \/ \E code \in PairCodes, are_you_sure \in BOOLEAN : InSequence(Delete(code, are_you_sure))

Spec == Init /\ [][Next]_vars

\* SpecCall: one call, with any arguments, against any store of InitStores.
InitCall ==
    /\ store \in InitStores
    /\ last = NoCall
    /\ nops = 0
    /\ pc = NoCallers
    /\ loc = NoCallers

\* The only call of the behaviour.
Once(call) ==
    /\ last.op = "none"
    /\ call
    /\ UNCHANGED <<nops, pc, loc>>

NextCall ==
    \/ \E code \in Codes : Once(Get(code))
    \/ \E code \in PairCodes, data \in Batches, ignore_duplication \in BOOLEAN :
          Once(Add(code, data, ignore_duplication))
    \/ \E code \in PairCodes, data \in Batches, check_for_spike \in BOOLEAN, spike \in BOOLEAN :
          Once(Update(code, data, check_for_spike, spike))
    \/ \E code \in PairCodes, are_you_sure \in BOOLEAN : Once(Delete(code, are_you_sure))

SpecCall == InitCall /\ [][NextCall]_vars

\* SpecResolve: one get_fx_prices against any store of ResolveStores.
InitResolve ==
    /\ store \in ResolveStores
    /\ last = NoCall
    /\ nops = 0
    /\ pc = NoCallers
    /\ loc = NoCallers

NextResolve == \E code \in Codes : Once(Get(code))

SpecResolve == InitResolve /\ [][NextResolve]_vars

\* ------------------------------------------------------- concurrent callers

\* Two callers update the same direct code; each call is three steps, the
\* read of the stored series, the merge, and the write, and the store runs
\* one read or write at a time.
Callers == {"a", "b"}

ConcCode == EUR \o USD

ConcStores == {EmptyStore} \cup {[c \in {ConcCode} |-> s] : s \in Batches}

\* The stored series under code, empty when the code is not stored.
Stored(st, code) == IF code \in DOMAIN st THEN st[code] ELSE <<>>

\* A caller's locals: the batch, the series it read, the merged series, and
\* for the record what it returned and the stored series just before and
\* just after its write.
NoLocals ==
    [new |-> <<>>, old |-> <<>>, merged |-> <<>>, ret |-> NoneResult,
     wrote |-> FALSE, before |-> <<>>, after |-> <<>>]

\* old_fx_prices = self.get_fx_prices(code)
CRead(p, new) ==
    /\ pc[p] = "idle"
    /\ pc' = [pc EXCEPT ![p] = "read"]
    /\ loc' = [loc EXCEPT ![p] = [NoLocals EXCEPT !.new = new,
                                                  !.old = get_fx_prices(store, ConcCode).data]]
    /\ UNCHANGED <<store, last, nops>>

\* The merge, and the two returns that write nothing.
CMerge(p, check_for_spike, spike) ==
    /\ pc[p] = "read"
    /\ LET merged_fx_prices ==
               add_rows_to_existing_data(loc[p].old, loc[p].new, check_for_spike, spike)
           rows_added == Len(merged_fx_prices.data) - Len(loc[p].old)
       IN  IF merged_fx_prices.cls = "SPIKE_IN_DATA"
           THEN /\ pc' = [pc EXCEPT ![p] = "done"]
                /\ loc' = [loc EXCEPT ![p].ret = SPIKE_IN_DATA]
           ELSE IF rows_added = 0
           THEN /\ pc' = [pc EXCEPT ![p] = "done"]
                /\ loc' = [loc EXCEPT ![p].ret = IntResult(0)]
           ELSE /\ pc' = [pc EXCEPT ![p] = "write"]
                /\ loc' = [loc EXCEPT ![p].merged = merged_fx_prices.data,
                                      ![p].ret = IntResult(rows_added)]
    /\ UNCHANGED <<store, last, nops>>

\* The write that persists the submitted batch instead of the merged series.
CWrite_new_batch(p) ==
    /\ pc[p] = "write"
    /\ store' = add_fx_prices(store, ConcCode, loc[p].new, TRUE).store
    /\ pc' = [pc EXCEPT ![p] = "done"]
    /\ loc' = [loc EXCEPT ![p].wrote = TRUE,
                          ![p].before = Stored(store, ConcCode),
                          ![p].after = Stored(store', ConcCode)]
    /\ UNCHANGED <<last, nops>>

\* self.add_fx_prices(code, merged_fx_prices, ignore_duplication=True)
CWrite(p) ==
    /\ pc[p] = "write"
    /\ store' = add_fx_prices(store, ConcCode, loc[p].merged, TRUE).store
    /\ pc' = [pc EXCEPT ![p] = "done"]
    /\ loc' = [loc EXCEPT ![p].wrote = TRUE,
                          ![p].before = Stored(store, ConcCode),
                          ![p].after = Stored(store', ConcCode)]
    /\ UNCHANGED <<last, nops>>

InitConc ==
    /\ store \in ConcStores
    /\ last = NoCall
    /\ nops = 0
    /\ pc = [p \in Callers |-> "idle"]
    /\ loc = [p \in Callers |-> NoLocals]

NextConc ==
    \E p \in Callers :
        \/ \E new \in Batches : CRead(p, new)
        \/ \E check_for_spike \in BOOLEAN, spike \in BOOLEAN : CMerge(p, check_for_spike, spike)
        \/ CWrite(p)

SpecConc == InitConc /\ [][NextConc]_vars

\* ------------------------------------------------------------------ claims

\* Every code of pre other than code is in st with the same series.
OthersKept(pre, st, code) ==
    /\ DOMAIN st \ {code} = DOMAIN pre \ {code}
    /\ \A c \in DOMAIN pre \ {code} : st[c] = pre[c]

\* A code the resolver answers with the identity series: an unparsable code
\* or one with two equal legs.
IdentityLike(code) == Len(code) # 6 \/ SubSeq(code, 1, 3) = SubSeq(code, 4, 6)

\* a * b = 1 for two rates.
Reciprocal(a, b) == a # NaN /\ b # NaN /\ a[1] * b[1] = a[2] * b[2]

\* q = a / b for three rates.
Quotient(q, a, b) == q # NaN /\ a # NaN /\ b # NaN /\ q[1] * a[2] * b[1] = q[2] * a[1] * b[2]

\* s has an observation at or before t.
FilledAt(s, t) == \E i \in 1..Len(s) : s[i].t <= t

\* r is the latest rate of s at or before t.
LatestAt(s, t, r) ==
    \E i \in 1..Len(s) :
        /\ s[i].t <= t
        /\ s[i].r = r
        /\ \A j \in 1..Len(s) : s[j].t <= t => s[j].t <= s[i].t

C2_OnlyReferenceQuotesStored ==
    \A c \in DOMAIN store : Len(c) = 6 /\ SubSeq(c, 4, 6) = DEFAULT_CURRENCY

\* C3: an update that is not rejected as a spike returns the number of rows
\* of the batch later than the last row get(code) returned; if that is at
\* least 1 the store then holds under code that series followed by exactly
\* those rows and no other code changes; if it is 0 nothing is written.
C3_UpdateAppendsNewerRows ==
    (last.op = "update" /\ ~(last.flag /\ last.spike)) =>
        LET old == get_fx_prices(last.pre, last.code).data
            newer == SelectSeq(last.data,
                               LAMBDA row : Len(old) = 0 \/ row.t > old[Len(old)].t)
        IN  /\ last.ret = IntResult(Len(newer))
            /\ Len(newer) >= 1 =>
                   /\ last.code \in DOMAIN store
                   /\ store[last.code] = old \o newer
                   /\ OthersKept(last.pre, store, last.code)
            /\ Len(newer) = 0 => (store = last.pre /\ ~last.wrote)

\* C4: an update repeated with the same code and batch, no spike flagged,
\* returns 0 the second time and leaves the store as the first call left it.
C4_ResubmissionIsNoOp ==
    [][(/\ last.op = "update" /\ ~(last.flag /\ last.spike)
        /\ last'.op = "update" /\ ~(last'.flag /\ last'.spike)
        /\ last'.code = last.code
        /\ last'.data = last.data)
       => (last'.ret = IntResult(0) /\ store' = store)]_vars

\* C5: add on a stored code without ignore_duplication returns None and
\* leaves the store as it was; add on an absent code, or with
\* ignore_duplication, puts the series under the code and changes no other.
C5_AddRefusesDuplicate ==
    last.op = "add" =>
        IF last.code \in DOMAIN last.pre /\ ~last.flag
        THEN store = last.pre /\ last.ret = NoneResult /\ ~last.wrote
        ELSE /\ last.code \in DOMAIN store
             /\ store[last.code] = last.data
             /\ OthersKept(last.pre, store, last.code)
             /\ last.wrote

C5_Witness ==
    /\ last.op = "add" /\ ~last.flag
    /\ last.code \in DOMAIN last.pre
    /\ last.data # last.pre[last.code]
    /\ Cardinality(DOMAIN last.pre) >= 2
    /\ store = last.pre

\* C6: the value add returns when it refuses a duplicate differs from the
\* value it returns when it writes.
C6_RefusalDistinguishable ==
    [][(last.op = "add" /\ last.wrote /\ last'.op = "add" /\ ~last'.wrote)
       => last'.ret # last.ret]_vars

\* C7: delete changes the store only when are_you_sure is set and the code
\* is stored, and then erases exactly that code; otherwise the store is as
\* it was; it returns without raising.
C7_DeleteFrame ==
    last.op = "delete" =>
        /\ last.ret = NoneResult
        /\ IF last.flag /\ last.code \in DOMAIN last.pre
           THEN /\ DOMAIN store = DOMAIN last.pre \ {last.code}
                /\ \A c \in DOMAIN store : store[c] = last.pre[c]
                /\ last.wrote
           ELSE store = last.pre /\ ~last.wrote

C7_Witness ==
    /\ last.op = "delete" /\ last.flag
    /\ last.code \in DOMAIN last.pre
    /\ Cardinality(DOMAIN last.pre) >= 2
    /\ last.code \notin DOMAIN store
    /\ store # EmptyStore

\* C8: get(X+Ref) is the stored series and get(Ref+X) has the same
\* timestamps with the reciprocal rate at each, when X+Ref is stored
\* non-empty; both are empty when X+Ref is absent or stored empty.
C8_DirectAndInversion ==
    \A x \in Currencies \ {DEFAULT_CURRENCY} :
        LET s == Stored(last.pre, x \o DEFAULT_CURRENCY)
            got == last.ret.data
        IN  /\ (last.op = "get" /\ last.code = x \o DEFAULT_CURRENCY) => got = s
            /\ (last.op = "get" /\ last.code = DEFAULT_CURRENCY \o x) =>
                   /\ Len(got) = Len(s)
                   /\ \A i \in 1..Len(s) :
                          got[i].t = s[i].t /\ Reciprocal(got[i].r, s[i].r)

C8_Witness ==
    /\ last.op = "get"
    /\ last.code = USD \o EUR
    /\ Len(last.ret.data) = MaxLen
    /\ last.code \in DOMAIN last.pre
    /\ last.ret.data # last.pre[last.code]

\* The cross claims: last is get(A+B) for distinct non-reference A, B.
IsCrossGet ==
    /\ last.op = "get"
    /\ Len(last.code) = 6
    /\ SubSeq(last.code, 1, 3) \notin {DEFAULT_CURRENCY, SubSeq(last.code, 4, 6)}
    /\ SubSeq(last.code, 4, 6) # DEFAULT_CURRENCY

LegA == Stored(last.pre, SubSeq(last.code, 1, 3) \o DEFAULT_CURRENCY)

LegB == Stored(last.pre, SubSeq(last.code, 4, 6) \o DEFAULT_CURRENCY)

Counted(p) == {loc[p].after[i] : i \in Len(loc[p].old) + 1..Len(loc[p].after)}

AllDone == \A p \in Callers : pc[p] = "done"

\* C10 as claimed: with only the single reads and writes serialized, every
\* write leaves a series that has the previously stored one as a prefix, and
\* once both calls have finished the stored series holds every row either
\* call counted.
C10_HistoryNeverRewritten ==
    /\ \A p \in Callers :
           (pc[p] = "done" /\ loc[p].wrote) => IsPrefix(loc[p].before, loc[p].after)
    /\ AllDone =>
           \A p \in Callers :
               loc[p].wrote => Counted(p) \subseteq {store[ConcCode][i] : i \in 1..Len(store[ConcCode])}

\* C10 amended: every write leaves a series that has the series its own call
\* read as a prefix, followed by as many rows as the call returns; when no
\* other write came between the call's read and its write the previously
\* stored series is a prefix too, and when that is so for every write the
\* stored series holds, once both calls have finished, every counted row.
C10_WriteExtendsWhatItRead ==
    /\ \A p \in Callers :
           (pc[p] = "done" /\ loc[p].wrote) =>
               /\ IsPrefix(loc[p].old, loc[p].after)
               /\ loc[p].ret = IntResult(Len(loc[p].after) - Len(loc[p].old))
               /\ loc[p].ret.n >= 1
               /\ loc[p].before = loc[p].old => IsPrefix(loc[p].before, loc[p].after)
    /\ (AllDone /\ \A p \in Callers : loc[p].wrote => loc[p].before = loc[p].old) =>
           \A p \in Callers :
               loc[p].wrote => Counted(p) \subseteq {store[ConcCode][i] : i \in 1..Len(store[ConcCode])}

\* Both calls wrote, and one wrote over the other's write.
C10_Witness ==
    /\ AllDone
    /\ \A p \in Callers : loc[p].wrote
    /\ \E p \in Callers : loc[p].before # loc[p].old /\ Len(loc[p].old) > 0

====
